---- MODULE Spec2Model ----
(***************************************************************************)
(* Model of src/main_vercel.py: the Flask view home(), the pure helpers it  *)
(* calls (allowed_file, detect_skin_type_simple, analyze_image_simple,     *)
(* predict_lesion_simple) and the four error handlers of the application.  *)
(*                                                                         *)
(* Conventions                                                             *)
(*  - a Python str is a sequence of one-character strings;                 *)
(*  - request.form / request.files are MultiDicts: every key maps to the   *)
(*    list of values sent for it, the empty list meaning "key absent";     *)
(*  - a Python int is a record [sign, mag], of any size; a Python float is *)
(*    a record [kind, sign, mant, exp], the IEEE 754 double it is;         *)
(*  - an uploaded image is abstracted to what cv2 makes of it: whether     *)
(*    cv2.imdecode yields an array, and the mean and standard deviation    *)
(*    of its grayscale plane, both in tenths (84.9 is 849);                *)
(*  - an ABCDE score is the range [lo, hi] of hundredths in which its      *)
(*    value lies (0.4 is 40): a drawn score may be any float of its range. *)
(***************************************************************************)
EXTENDS Integers, Sequences, FiniteSets, TLC

VARIABLES
    handler,                  \* the function Flask calls for the request
    pc,                       \* the position in that function
    request,                  \* the request being served
    flashes,                  \* messages passed to flash(), in order
    response,                 \* what the function returned
    skin_type, body_part, has_evolved, evolution_weeks,
    age, uv_exposure, family_history,
    manual_length, manual_width,
    file_data, show_manual_measurements, detected_skin_type,
    prediction, confidence, analysis_data, analysis_summary,
    stages,                   \* history: the stages of a POST executed
    calls                     \* history: the helper calls made, with arguments

formVars == <<skin_type, body_part, has_evolved, evolution_weeks, age,
              uv_exposure, family_history, manual_length, manual_width,
              file_data, show_manual_measurements>>
scoreVars == <<prediction, confidence, analysis_data, analysis_summary>>
vars == <<handler, pc, request, flashes, response, formVars,
          detected_skin_type, scoreVars, stages, calls>>

---------------------------------------------------------------------------
(* Bounds of the model.                                                    *)

\* A request differs from BaseRequest in at most MaxVaried fields.
MaxVaried == 1

---------------------------------------------------------------------------
(* Python strings.                                                         *)

UpperChars == <<"A","B","C","D","E","F","G","H","I","J","K","L","M",
                "N","O","P","Q","R","S","T","U","V","W","X","Y","Z">>
LowerChars == <<"a","b","c","d","e","f","g","h","i","j","k","l","m",
                "n","o","p","q","r","s","t","u","v","w","x","y","z">>

\* The characters int() and float() read as the decimal digits 0, ..., 9:
\* DigitChars[v + 1] holds the characters of Unicode category Nd whose
\* value is v.
DigitChars ==
    << {"0", "۰", "߀", "০", "૦", "௦", "೦", "෦", "໐", "႐",
        "០", "᧐", "᪀", "᪐", "᮰", "꣐", "꧐", "꧰", "꯰"},
       {"1", "۱", "߁", "১", "૧", "௧", "೧", "෧", "໑", "႑",
        "១", "᧑", "᪁", "᪑", "᮱", "꣑", "꧑", "꧱", "꯱"},
       {"2", "۲", "߂", "২", "૨", "௨", "೨", "෨", "໒", "႒",
        "២", "᧒", "᪂", "᪒", "᮲", "꣒", "꧒", "꧲", "꯲"},
       {"3", "۳", "߃", "৩", "૩", "௩", "೩", "෩", "໓", "႓",
        "៣", "᧓", "᪃", "᪓", "᮳", "꣓", "꧓", "꧳", "꯳"},
       {"4", "۴", "߄", "৪", "૪", "௪", "೪", "෪", "໔", "႔",
        "៤", "᧔", "᪄", "᪔", "᮴", "꣔", "꧔", "꧴", "꯴"},
       {"5", "۵", "߅", "৫", "૫", "௫", "೫", "෫", "໕", "႕",
        "៥", "᧕", "᪅", "᪕", "᮵", "꣕", "꧕", "꧵", "꯵"},
       {"6", "۶", "߆", "৬", "૬", "௬", "೬", "෬", "໖", "႖",
        "៦", "᧖", "᪆", "᪖", "᮶", "꣖", "꧖", "꧶", "꯶"},
       {"7", "۷", "߇", "৭", "૭", "௭", "೭", "෭", "໗", "႗",
        "៧", "᧗", "᪇", "᪗", "᮷", "꣗", "꧗", "꧷", "꯷"},
       {"8", "۸", "߈", "৮", "૮", "௮", "೮", "෮", "໘", "႘",
        "៨", "᧘", "᪈", "᪘", "᮸", "꣘", "꧘", "꧸", "꯸"},
       {"9", "۹", "߉", "৯", "૯", "௯", "೯", "෯", "໙", "႙",
        "៩", "᧙", "᪉", "᪙", "᮹", "꣙", "꧙", "꧹", "꯹"} >>
\* c.lower() for an ASCII character c; the C function tolower of float()'s
\* parser
AsciiLowerChar(c) ==
    IF \E i \in 1..26 : UpperChars[i] = c
    THEN LowerChars[CHOOSE i \in 1..26 : UpperChars[i] = c]
    ELSE c

\* s.lower() as far as the ASCII letters go. No character outside ASCII
\* that a string of this module can hold lowers to an ASCII letter (the two
\* of Unicode that do, U+0130 and U+212A, cannot be written here), so
\* s.lower() = t is AsciiLower(s) = t for every str t of ASCII letters.
AsciiLower(s) == [i \in 1..Len(s) |-> AsciiLowerChar(s[i])]

\* c.isspace(): the characters str.strip() removes. In order U+0009 to
\* U+000D, U+001C to U+001F, U+0020, U+0085, U+00A0, U+1680; the other
\* whitespace of Unicode (U+2000 and up) cannot be written in a string of
\* this module.
IsSpace(c) ==
    c \in {"\t", "\n", "", "\f", "\r", "", "", "", "",
           " ", "", " ", " "}

\* The whitespace int() and float() skip around a number: that of
\* str.strip() without U+001C to U+001F.
IsNumSpace(c) ==
    c \in {"\t", "\n", "", "\f", "\r", " ", "", " ", " "}

IsDigit(c) == \E v \in 0..9 : c \in DigitChars[v + 1]
DigitVal(c) == CHOOSE v \in 0..9 : c \in DigitChars[v + 1]

\* s without the leading and trailing characters that satisfy IsSpace,
\* or IsNumSpace when numeric is true
Stripped(s, numeric) ==
    LET nonsp == {i \in 1..Len(s) :
                    IF numeric THEN ~IsNumSpace(s[i]) ELSE ~IsSpace(s[i])}
    IN  IF nonsp = {} THEN <<>>
        ELSE SubSeq(s, CHOOSE i \in nonsp : \A j \in nonsp : i <= j,
                       CHOOSE i \in nonsp : \A j \in nonsp : j <= i)

\* str.strip(): leading and trailing whitespace removed
Strip(s) == Stripped(s, FALSE)

\* Python's truth value of a str: non-empty
Truthy(s) == Len(s) > 0

\* s.rsplit('.', 1)[1]: what follows the last '.' (s holds one)
AfterLastDot(s) ==
    LET dots == {i \in 1..Len(s) : s[i] = "."}
        last == CHOOSE i \in dots : \A j \in dots : j <= i
    IN  SubSeq(s, last + 1, Len(s))

\* A run of decimal digits in which single underscores may separate digits
\* (the digit part of Python's int and float literals).
IsDigitGroup(s) ==
    /\ Len(s) > 0
    /\ IsDigit(s[1]) /\ IsDigit(s[Len(s)])
    /\ \A i \in 1..Len(s) : IsDigit(s[i]) \/ s[i] = "_"
    /\ \A i \in 1..(Len(s) - 1) : ~(s[i] = "_" /\ s[i + 1] = "_")

\* the values of the digits of a digit group, in order
DigitValues(s) ==
    LET Kept(c) == c # "_"
        t == SelectSeq(s, Kept)
    IN  [i \in 1..Len(t) |-> DigitVal(t[i])]

HasSign(s) == Len(s) > 0 /\ s[1] \in {"+", "-"}
SignOf(s) == IF Len(s) > 0 /\ s[1] = "-" THEN -1 ELSE 1
Unsigned(s) == IF HasSign(s) THEN SubSeq(s, 2, Len(s)) ELSE s

---------------------------------------------------------------------------
(* Python ints. A magnitude is a sequence of base-10000 limbs, the most    *)
(* significant first and not 0; <<>> is the magnitude 0.                   *)

\* a without its leading zero limbs
Trim(a) ==
    LET nz == {i \in 1..Len(a) : a[i] # 0}
    IN  IF nz = {} THEN <<>>
        ELSE SubSeq(a, CHOOSE i \in nz : \A j \in nz : i <= j, Len(a))

\* the magnitude written by the decimal digit values d
LimbsOf(d) ==
    LET n == Len(d)
        m == (n + 3) \div 4
        At(j) == IF j >= 1 THEN d[j] ELSE 0
        Limb(i) == LET u == n - 4 * (m - i)
                   IN  1000 * At(u - 3) + 100 * At(u - 2) + 10 * At(u - 1)
                       + At(u)
    IN  Trim([i \in 1..m |-> Limb(i)])

\* the magnitude of a natural number below 2^31
NatLimbs(n) ==
    Trim(<<n \div 100000000, (n \div 10000) % 10000, n % 10000>>)

\* -1, 0 or 1 as the magnitude a is below, equal to or above b
MagCmp(a, b) ==
    IF Len(a) # Len(b) THEN (IF Len(a) < Len(b) THEN -1 ELSE 1)
    ELSE LET diff == {i \in 1..Len(a) : a[i] # b[i]}
         IN  IF diff = {} THEN 0
             ELSE LET i == CHOOSE i \in diff : \A j \in diff : i <= j
                  IN  IF a[i] < b[i] THEN -1 ELSE 1

\* the int n, for an integer of the model
PyInt(n) ==
    [sign |-> IF n < 0 THEN -1 ELSE 1,
     mag |-> NatLimbs(IF n < 0 THEN -n ELSE n)]

\* -1, 0 or 1 as the int x is below, equal to or above the int y
IntCmp(x, y) ==
    IF x.sign # y.sign THEN (IF x.sign < y.sign THEN -1 ELSE 1)
    ELSE x.sign * MagCmp(x.mag, y.mag)

\* x > n and x < n for an int x and an integer n of the model
IntGT(x, n) == IntCmp(x, PyInt(n)) = 1
IntLT(x, n) == IntCmp(x, PyInt(n)) = -1

\* int(s) for a str s: [ok |-> FALSE] stands for ValueError, which int
\* also raises for more than 4300 digits (sys.int_info.default_max_str_digits)
IntOfStr(s) ==
    LET t == Stripped(s, TRUE)
        body == Unsigned(t)
    IN  IF IsDigitGroup(body) /\ Len(DigitValues(body)) <= 4300
        THEN LET mag == LimbsOf(DigitValues(body))
             IN  [ok |-> TRUE,
                  val |-> [sign |-> IF mag = <<>> THEN 1 ELSE SignOf(t),
                           mag |-> mag]]
        ELSE [ok |-> FALSE, val |-> PyInt(0)]

---------------------------------------------------------------------------
(* Python floats: IEEE 754 doubles. A finite float is sign * mant * 2^exp  *)
(* with mant a magnitude: 2^52 <= mant < 2^53 and -1074 <= exp <= 971 for  *)
(* a normal number, mant < 2^52 and exp = -1074 for a subnormal one, mant  *)
(* 0 and exp 0 for +0.0 and -0.0.                                          *)

Fin(sgn, m, e) == [kind |-> "fin", sign |-> sgn, mant |-> m, exp |-> e]
Inf(sgn) == [kind |-> "inf", sign |-> sgn, mant |-> <<>>, exp |-> 0]
NaN == [kind |-> "nan", sign |-> 1, mant |-> <<>>, exp |-> 0]

\* a * k + c for a magnitude a and 0 <= k, c <= 65536. The products of
\* the limbs are carried in two passes, after which a limb is at most
\* 10006 and what is left to carry into a limb is 0 or 1: 1 when a limb
\* after it is above 9999 and the limbs between the two are all 9999.
MulAdd(a, k, c) ==
    LET n == Len(a) + 2
        Raw(i) == IF i < 3 \/ i > n THEN 0
                  ELSE a[i - 2] * k + (IF i = n THEN c ELSE 0)
        Once(i) == (Raw(i) % 10000) + (Raw(i + 1) \div 10000)
        twice == [i \in 1..n |->
                   (Once(i) % 10000) + (Once(i + 1) \div 10000)]
        over == {j \in 1..n : twice[j] > 9999}
        Carry(i) == \E j \in over :
                       j > i /\ \A h \in (i + 1)..(j - 1) : twice[h] = 9999
    IN  IF a = <<>> THEN Trim(<<c \div 10000, c % 10000>>)
        ELSE Trim([i \in 1..n |->
                     (twice[i] + (IF Carry(i) THEN 1 ELSE 0)) % 10000])

\* a \div k and a % k for a magnitude a and k a power of two, at most
\* 2^16: 10000^4 is a multiple of k, so the remainder of the limbs up to
\* the i-th is that of the last four of them.
DivSmall(a, k) ==
    LET At(i) == IF i >= 1 THEN a[i] ELSE 0
        Rem(i) == ((((((At(i - 3) % k) * 10000 + At(i - 2)) % k) * 10000
                     + At(i - 1)) % k) * 10000 + At(i)) % k
    IN  [quot |-> Trim([i \in 1..Len(a) |->
                          (Rem(i - 1) * 10000 + a[i]) \div k]),
         rem |-> Rem(Len(a))]

\* a * 2^s
RECURSIVE Shl(_, _)
Shl(a, s) ==
    IF s <= 16 THEN MulAdd(a, 2^s, 0)
    ELSE LET h == Shl(a, s \div 2)
         IN  IF h = <<>> THEN <<>> ELSE Shl(h, s - (s \div 2))

\* a \div 2^s, and whether a remainder was dropped
RECURSIVE Shr(_, _)
Shr(a, s) ==
    IF s <= 16
    THEN LET d == DivSmall(a, 2^s)
         IN  [quot |-> d.quot, inexact |-> d.rem # 0]
    ELSE LET h == Shr(a, s \div 2)
         IN  IF h.inexact
             THEN [quot |-> Shr(h.quot, s - (s \div 2)).quot,
                   inexact |-> TRUE]
             ELSE Shr(h.quot, s - (s \div 2))

Pow2(n) == Shl(<<1>>, n)

\* whether the magnitude m is odd
IsOdd(m) == m # <<>> /\ m[Len(m)] % 2 = 1

Least(a, b) == IF a < b THEN a ELSE b

\* a without its last g limbs, and whether a limb that is not 0 was dropped
DropLimbs(a, g) ==
    [quot |-> IF Len(a) <= g THEN <<>> ELSE SubSeq(a, 1, Len(a) - g),
     inexact |-> \E i \in 1..Len(a) : i > Len(a) - g /\ a[i] # 0]

\* the quotient r, inexact also when flag says so
OrInexact(r, flag) == [quot |-> r.quot, inexact |-> r.inexact \/ flag]

\* The integer part of n / 10000^g * 2^s, and whether a fraction was
\* dropped.
Scale(n, g, s) ==
    IF s >= 0 THEN DropLimbs(Shl(n, s), g)
    ELSE OrInexact(Shr(DropLimbs(n, g).quot, -s), DropLimbs(n, g).inexact)

\* n and g with 0.d * 10^e10 = n / 10000^g, for decimal digit values d
DecimalLimbs(d, e10) ==
    LET k == e10 - Len(d)
        pad == IF k >= 0 THEN k ELSE (4 - ((-k) % 4)) % 4
    IN  [n |-> LimbsOf(d \o [i \in 1..pad |-> 0]),
         g |-> IF k >= 0 THEN 0 ELSE ((-k) + pad) \div 4]

\* how many of 2^50 ... 2^54 the magnitude q is below
PowersAbove(q) == Cardinality({j \in 50..54 : MagCmp(q, Pow2(j)) < 0})

\* The shift s that brings v.n / 10000^v.g into [2^54, 2^55), two bits
\* more than a mantissa, and at most 1076, the shift of the subnormal
\* numbers; s0 brings it into [2^50, 2^55).
ShiftOf(v, s0) ==
    IF s0 >= 1076 THEN 1076
    ELSE Least(1076, s0 + PowersAbove(Scale(v.n, v.g, s0).quot))

\* qr.quot + qr.rem / 4 rounded to an integer, ties to even; sticky says
\* that the value is above what qr holds
Rounded(qr, sticky) ==
    IF qr.rem = 3 \/ (qr.rem = 2 /\ (sticky \/ IsOdd(qr.quot)))
    THEN MulAdd(qr.quot, 1, 1)
    ELSE qr.quot

\* the float sgn * m * 2^(2 - s) for a rounded mantissa m <= 2^53
FloatOfMant(sgn, m, s) ==
    IF m = <<>> THEN Fin(sgn, <<>>, 0)
    ELSE IF m = Pow2(53)
    THEN (IF 3 - s > 971 THEN Inf(sgn) ELSE Fin(sgn, Pow2(52), 3 - s))
    ELSE IF 2 - s > 971 THEN Inf(sgn)
    ELSE Fin(sgn, m, 2 - s)

FloatOfScaled(sgn, sc, s, more) ==
    FloatOfMant(sgn, Rounded(DivSmall(sc.quot, 4), sc.inexact \/ more), s)

FloatOfLimbs(sgn, v, s, more) ==
    FloatOfScaled(sgn, Scale(v.n, v.g, s), s, more)

FloatOfKept(sgn, v, s0, more) == FloatOfLimbs(sgn, v, ShiftOf(v, s0), more)

\* The double nearest to sgn * 0.d * 10^e10, ties to the even mantissa, for
\* decimal digit values d with d[1] # 0 (d = <<>> is zero).
\*  - Below 10^-324 the value rounds to zero, from 10^309 on to infinity.
\*  - A bound between two roundings has fewer than 800 significant
\*    digits, so the digits after the 800th only say that the value is
\*    above what the first 800 write.
\*  - (e10 - 1) * 3.321928 - 1 is at most log2 of the value and less than
\*    5 below it.
FloatOfDecimal(sgn, d, e10) ==
    IF d = <<>> \/ e10 <= -324 THEN Fin(sgn, <<>>, 0)
    ELSE IF e10 >= 310 THEN Inf(sgn)
    ELSE FloatOfKept(sgn,
                     DecimalLimbs(IF Len(d) > 800 THEN SubSeq(d, 1, 800)
                                  ELSE d, e10),
                     50 - (((e10 - 1) * 3321928) \div 1000000),
                     Len(d) > 800)

\* float(n) for a natural number n below 2^30
FloatOfNat(n) ==
    IF n = 0 THEN Fin(1, <<>>, 0)
    ELSE LET b == CHOOSE b \in 1..30 : 2^(b - 1) <= n /\ n < 2^b
         IN  Fin(1, Shl(NatLimbs(n), 53 - b), b - 53)

\* the literal 0.0
FloatZero == FloatOfNat(0)

\* -1, 0 or 1 as the quotient r of a positive float is below, equal to or
\* above the magnitude b
QuotCmp(r, b) ==
    IF MagCmp(r.quot, b) # 0 THEN MagCmp(r.quot, b)
    ELSE IF r.inexact THEN 1 ELSE 0

\* -1, 0 or 1 as the float x, not NaN, is below, equal to or above the
\* natural number n
FloatCmp(x, n) ==
    IF x.kind = "inf" THEN x.sign
    ELSE IF x.mant = <<>> THEN (IF n = 0 THEN 0 ELSE -1)
    ELSE IF x.sign = -1 THEN -1
    ELSE IF x.exp >= 0 THEN 1
    ELSE QuotCmp(Shr(x.mant, Least(53, -x.exp)), NatLimbs(n))

\* x > n and x < n for a float x and a natural number n (false for NaN)
FloatGT(x, n) == x.kind # "nan" /\ FloatCmp(x, n) = 1
FloatLT(x, n) == x.kind # "nan" /\ FloatCmp(x, n) = -1

\* the result of a digit group, or of one that may be empty
DigitsOf(s) ==
    IF s = <<>> THEN [ok |-> TRUE, digits |-> <<>>]
    ELSE IF IsDigitGroup(s) THEN [ok |-> TRUE, digits |-> DigitValues(s)]
    ELSE [ok |-> FALSE, digits |-> <<>>]

\* the parts before and after the point of a literal, one of them not empty
DecimalOfParts(ip, fp) ==
    [ok |-> ip.ok /\ fp.ok /\ Len(ip.digits) + Len(fp.digits) > 0,
     int |-> ip.digits, frac |-> fp.digits]

\* the decimal literal m, with neither sign nor exponent: the digit values
\* before and after the point
DecimalOfStr(m) ==
    LET dots == {i \in 1..Len(m) : m[i] = "."}
        p == CHOOSE i \in dots : TRUE
    IN  IF dots = {} THEN DecimalOfParts(DigitsOf(m), DigitsOf(<<>>))
        ELSE IF Cardinality(dots) > 1
        THEN [ok |-> FALSE, int |-> <<>>, frac |-> <<>>]
        ELSE DecimalOfParts(DigitsOf(SubSeq(m, 1, p - 1)),
                            DigitsOf(SubSeq(m, p + 1, Len(m))))

\* the value of the digit group of an exponent, 10^8 standing for
\* everything from 10^8 on
ExponentOfLimbs(limbs) ==
    IF Len(limbs) > 2 THEN 100000000
    ELSE IF Len(limbs) = 2 THEN 10000 * limbs[1] + limbs[2]
    ELSE IF Len(limbs) = 1 THEN limbs[1]
    ELSE 0
ExponentOfStr(s) == ExponentOfLimbs(LimbsOf(DigitValues(s)))

\* the float written by the digit values all, the first whole of them
\* before the point, times 10^ex
FloatOfDigits(sgn, all, whole, ex) ==
    LET nz == {i \in 1..Len(all) : all[i] # 0}
        first == CHOOSE i \in nz : \A j \in nz : i <= j
        last == CHOOSE i \in nz : \A j \in nz : j <= i
    IN  IF nz = {} THEN Fin(sgn, <<>>, 0)
        ELSE FloatOfDecimal(sgn, SubSeq(all, first, last),
                            whole - (first - 1) + ex)

\* the float written by the decimal dec (of DecimalOfStr) times 10^ex
FloatOfParts(sgn, dec, ex) ==
    FloatOfDigits(sgn, dec.int \o dec.frac, Len(dec.int), ex)

\* float() of a decimal written dec with exponent ex, ValueError when
\* either is not well formed
FloatOfLiteral(sgn, dec, exOk, ex) ==
    IF dec.ok /\ exOk THEN [ok |-> TRUE, val |-> FloatOfParts(sgn, dec, ex)]
    ELSE [ok |-> FALSE, val |-> FloatZero]

\* float() of the unsigned text body, low its lower case and es the places
\* of its 'e'
FloatOfBody(sgn, body, low, es) ==
    LET p == CHOOSE i \in es : TRUE
        ex == SubSeq(body, p + 1, Len(body))
    IN  IF low \in {<<"i","n","f">>, <<"i","n","f","i","n","i","t","y">>}
        THEN [ok |-> TRUE, val |-> Inf(sgn)]
        ELSE IF low = <<"n","a","n">>
        THEN [ok |-> TRUE, val |-> NaN]
        ELSE IF es = {}
        THEN FloatOfLiteral(sgn, DecimalOfStr(body), TRUE, 0)
        ELSE IF Cardinality(es) > 1 THEN [ok |-> FALSE, val |-> FloatZero]
        ELSE FloatOfLiteral(sgn, DecimalOfStr(SubSeq(body, 1, p - 1)),
                            IsDigitGroup(Unsigned(ex)),
                            SignOf(ex) * ExponentOfStr(Unsigned(ex)))

FloatOfSigned(t) ==
    FloatOfBody(SignOf(t), Unsigned(t), AsciiLower(Unsigned(t)),
                {i \in 1..Len(Unsigned(t)) : AsciiLower(Unsigned(t))[i] = "e"})

\* float(s) for a str s: [ok |-> FALSE] stands for ValueError
FloatOfStr(s) == FloatOfSigned(Stripped(s, TRUE))

---------------------------------------------------------------------------
(* Module constants of main_vercel.py.                                     *)

\* app.config['MAX_CONTENT_LENGTH']
MAX_CONTENT_LENGTH == 16 * 1024 * 1024

ALLOWED_EXTENSIONS ==
    {<<"p","n","g">>, <<"j","p","g">>, <<"j","p","e","g">>,
     <<"g","i","f">>, <<"b","m","p">>}

TypeI == <<"I">>
TypeII == <<"I","I">>
TypeIII == <<"I","I","I">>
TypeIV == <<"I","V">>
TypeV == <<"V">>
TypeVI == <<"V","I">>

\* the keys of FITZPATRICK_TYPES
FitzpatrickCodes == {TypeI, TypeII, TypeIII, TypeIV, TypeV, TypeVI}

\* FITZPATRICK_TYPES[code]
FITZPATRICK_TYPES(code) ==
    CASE code = TypeI -> "Type I - Very Fair (Always burns, never tans)"
      [] code = TypeII -> "Type II - Fair (Usually burns, tans minimally)"
      [] code = TypeIII -> "Type III - Medium (Sometimes burns, tans uniformly)"
      [] code = TypeIV -> "Type IV - Olive (Rarely burns, tans easily)"
      [] code = TypeV -> "Type V - Dark (Very rarely burns, tans very easily)"
      [] code = TypeVI -> "Type VI - Very Dark (Never burns, tans very easily)"

---------------------------------------------------------------------------
(* The pure helpers.                                                       *)

\* allowed_file with the extension taken after the first '.', as
\* filename.split('.')[1] would
allowed_file_FirstDot(filename) ==
    LET dots == {i \in 1..Len(filename) : filename[i] = "."}
        first == CHOOSE i \in dots : \A j \in dots : i <= j
        rest == SubSeq(filename, first + 1, Len(filename))
        ends == {i \in 1..Len(rest) : rest[i] = "."}
        stop == IF ends = {} THEN Len(rest)
                ELSE (CHOOSE i \in ends : \A j \in ends : i <= j) - 1
    IN  /\ dots # {}
        /\ AsciiLower(SubSeq(rest, 1, stop)) \in ALLOWED_EXTENSIONS

\* allowed_file(filename)
allowed_file(filename) ==
    /\ \E i \in 1..Len(filename) : filename[i] = "."
    /\ AsciiLower(AfterLastDot(filename)) \in ALLOWED_EXTENSIONS

\* detect_skin_type_simple with the first threshold inclusive
detect_skin_type_simple_LE(image_data) ==
    IF ~image_data.decodable THEN TypeIII
    ELSE LET brightness == image_data.brightness
         IN  IF brightness <= 850 THEN TypeVI
             ELSE IF brightness < 1200 THEN TypeV
             ELSE IF brightness < 1500 THEN TypeIV
             ELSE IF brightness < 1800 THEN TypeIII
             ELSE IF brightness < 2000 THEN TypeII
             ELSE TypeI

\* detect_skin_type_simple(image_data): cv2.imdecode returns None for bytes
\* it cannot decode, cv2.cvtColor then raises, and the except clause
\* answers 'III'. brightness is in tenths.
detect_skin_type_simple(image_data) ==
    IF ~image_data.decodable THEN TypeIII
    ELSE LET brightness == image_data.brightness
         IN  IF brightness < 850 THEN TypeVI
             ELSE IF brightness < 1200 THEN TypeV
             ELSE IF brightness < 1500 THEN TypeIV
             ELSE IF brightness < 1800 THEN TypeIII
             ELSE IF brightness < 2000 THEN TypeII
             ELSE TypeI

\* The empty dict {}.
EmptyDict == <<>>

\* d.get(k, default) for a dict d
Get(d, k, default) == IF k \in DOMAIN d THEN d[k] ELSE default

\* analyze_image_simple answering zeroed statistics instead of {} on failure
analyze_image_simple_ZeroStats(image_data) ==
    IF ~image_data.decodable THEN [brightness |-> 0, contrast |-> 0]
    ELSE [brightness |-> image_data.brightness,
          contrast |-> image_data.contrast]

\* analyze_image_simple(image_data): the statistics dict, or {} when
\* img_np is None (img_np.shape raises, the except clause answers {}).
\* Of the seven statistics only brightness and contrast are read again.
analyze_image_simple(image_data) ==
    IF ~image_data.decodable THEN EmptyDict
    ELSE [brightness |-> image_data.brightness,
          contrast |-> image_data.contrast]

\* random.randint(a, b): the possible draws
RandInt(a, b) == a..b

\* random.uniform(a, b) for a and b in hundredths: the draw is a float of
\* [a, b], both ends possible (0.1 + 0.3 * random() is 0.1 at the least and
\* 0.4 at the most, and so for the other two ranges); it is kept as its
\* range.
Uniform(a, b) == [lo |-> a, hi |-> b]

\* the score that is exactly v hundredths
Exactly(v) == [lo |-> v, hi |-> v]

\* risk_factors with age >= 50 in place of age > 50
RiskFactors_AgeGE(image_analysis, he, fh, ag, uv) ==
    (IF he THEN 2 ELSE 0)
    + (IF fh THEN 1 ELSE 0)
    + (IF ~IntLT(ag, 50) THEN 1 ELSE 0)
    + (IF IntGT(uv, 7) THEN 1 ELSE 0)
    + (IF DOMAIN image_analysis # {}
          /\ Get(image_analysis, "contrast", 0) > 500 THEN 1 ELSE 0)
    + (IF DOMAIN image_analysis # {}
          /\ Get(image_analysis, "brightness", 0) < 1000 THEN 1 ELSE 0)

\* risk_factors as predict_lesion_simple accumulates it (contrast and
\* brightness in tenths)
RiskFactors(image_analysis, he, fh, ag, uv) ==
    (IF he THEN 2 ELSE 0)
    + (IF fh THEN 1 ELSE 0)
    + (IF IntGT(ag, 50) THEN 1 ELSE 0)
    + (IF IntGT(uv, 7) THEN 1 ELSE 0)
    + (IF DOMAIN image_analysis # {}
          /\ Get(image_analysis, "contrast", 0) > 500 THEN 1 ELSE 0)
    + (IF DOMAIN image_analysis # {}
          /\ Get(image_analysis, "brightness", 0) < 1000 THEN 1 ELSE 0)

\* the prediction of the tier
TierLabel(risk_factors) ==
    IF risk_factors >= 3 THEN "High Risk - Melanoma"
    ELSE IF risk_factors >= 1 THEN "Medium Risk - Atypical Nevus"
    ELSE "Low Risk - Benign"

\* the possible confidence draws of the tier
TierConfidence(risk_factors) ==
    IF risk_factors >= 3 THEN RandInt(75, 95)
    ELSE IF risk_factors >= 1 THEN RandInt(50, 80)
    ELSE RandInt(70, 90)

\* the feature scores switching bucket at the High Risk threshold
FeatureScores_TierThreshold(risk_factors) ==
    IF risk_factors < 3 THEN Uniform(10, 40) ELSE Uniform(50, 80)

\* the draw of asymmetry_score, border_score, color_score
FeatureScores(risk_factors) ==
    IF risk_factors < 2 THEN Uniform(10, 40) ELSE Uniform(50, 80)

\* the draw of diameter_score
DiameterScores(ml) ==
    IF FloatLT(ml, 6) THEN Uniform(10, 40) ELSE Uniform(60, 90)

\* {'score': s, 'label': lo if s <= limit else hi}, for every label a
\* value of the range s can get
Scored(s, limit, lo, hi) ==
    { [score |-> s, label |-> l] :
        l \in (IF s.lo <= limit THEN {lo} ELSE {})
              \cup (IF s.hi > limit THEN {hi} ELSE {}) }

\* f'Type {skin_type}'
TypeLabel(st) == <<"T","y","p","e"," ">> \o st

\* predict_lesion_simple(...): the set of (prediction, confidence,
\* analysis_data) results the random draws allow. No statement of the try
\* block raises for a bool/int/float argument list, so the except clause
\* ("Error - Unable to analyze", 0, {}) returns for none of them.
\* combined_score is in hundredths, combined_score_explanation is reduced
\* to the number it quotes.
predict_lesion_simple(image_data, st, bp, he, ew, ml, mw, ag, uv, fh) ==
    LET image_analysis == analyze_image_simple(image_data)
        risk_factors == RiskFactors(image_analysis, he, fh, ag, uv)
        asymmetry_score == FeatureScores(risk_factors)
        border_score == FeatureScores(risk_factors)
        color_score == FeatureScores(risk_factors)
        diameter_score == DiameterScores(ml)
        evolution_score == IF he THEN Exactly(80) ELSE Exactly(10)
        pred == TierLabel(risk_factors)
    IN  { [prediction |-> pred,
           confidence |-> conf,
           analysis_data |->
             [ABCDE_feature_analysis |->
                [asymmetry |-> a, border |-> b, color |-> c, diameter |-> d,
                 evolution |-> e],
              cnn_analysis |-> [prediction |-> pred, confidence |-> conf],
              metadata_risk_analysis |->
                [age_risk |-> IF IntLT(ag, 50) THEN "Low" ELSE "Medium",
                 uv_exposure_risk |-> IF IntLT(uv, 7) THEN "Low" ELSE "Medium",
                 family_history_risk |-> IF fh THEN "High" ELSE "Low"],
              combined_score |-> conf,
              combined_score_explanation |-> risk_factors,
              detected_skin_tone |-> TypeLabel(st),
              analysis_type |-> "simplified_vercel",
              skin_type_adjustments |-> EmptyDict,
              manual_measurements |-> EmptyDict,
              image_analysis |-> image_analysis]]
          : conf \in TierConfidence(risk_factors),
            a \in Scored(asymmetry_score, 40, "Low", "High"),
            b \in Scored(border_score, 40, "Regular", "Irregular"),
            c \in Scored(color_score, 40, "Uniform", "Variable"),
            d \in Scored(diameter_score, 50, "Normal (<6mm)", "Large (>=6mm)"),
            e \in Scored(evolution_score, 50, "Stable", "Changing") }

---------------------------------------------------------------------------
(* The requests explored.                                                  *)

Img(b, c) == [decodable |-> TRUE, brightness |-> b, contrast |-> c]
Undecodable == [decodable |-> FALSE, brightness |-> 0, contrast |-> 0]
File(name, data) == [filename |-> name, data |-> data]

FormFields ==
    {"skin_type", "body_part", "has_evolved", "evolution_weeks", "age",
     "uv_exposure", "family_history", "manual_length", "manual_width"}

BaseImage == Img(1300, 300)
BaseName == <<"a",".","p","n","g">>

\* A well-formed submission: every alternative below departs from it.
\* content_length is the size of the body in bytes.
BaseRequest ==
    [method |-> "POST",
     content_length |-> 4096,
     files |-> [image |-> <<File(BaseName, BaseImage)>>],
     form |-> [skin_type |-> <<TypeII>>,
               body_part |-> << <<"f","a","c","e">> >>,
               has_evolved |-> << <<"o","n">> >>,
               evolution_weeks |-> << <<"1","2">> >>,
               age |-> << <<"4","2">> >>,
               uv_exposure |-> << <<"5">> >>,
               family_history |-> <<>>,
               manual_length |-> << <<"6">> >>,
               manual_width |-> << <<"3",".","5">> >>]]

\* request.method: the route of home() takes GET and POST, and HEAD with
\* GET
MethodAlts == {"GET", "HEAD"}

\* request.content_length: the limit and the first size above it
LengthAlts == {MAX_CONTENT_LENGTH, MAX_CONTENT_LENGTH + 1}

\* request.files.getlist('image'): no part, other filenames, other bytes
FileAlts ==
    {<<>>}
    \cup { <<File(n, BaseImage)>> :
             n \in { <<>>,
                     <<"a",".","P","N","G">>,
                     <<"a",".","t","x","t">>,
                     <<"p","n","g">>,
                     <<"a",".","p","n","g",".","e","x","e">>,
                     <<"x",".","y",".","J","p","E","g">>,
                     <<"a",".">>,
                     <<".","g","i","f">>,
                     <<"a",".","b","m","p"," ">> } }
    \cup { <<File(BaseName, d)>> :
             d \in {Undecodable, Img(1300, 500), Img(1300, 501)}
                   \cup { Img(b, 300) :
                            b \in {849, 850, 1199, 1200, 1499, 1500,
                                   1799, 1800, 1999, 2000} } }

\* request.form.getlist(field)
FormAlts ==
    [skin_type |-> { <<>>, <<TypeVI>>, << <<"X">> >> },
     body_part |-> { <<>>, << <<>> >>, << <<"N","o","n","e">> >> },
     has_evolved |-> { <<>> },
     evolution_weeks |-> { <<>>, << <<>> >>, << <<" ">> >>,
                           << <<"1","x">> >>, << <<"-","3">> >>,
                           << <<" ","7"," ">> >>, << <<"2",".","0">> >>,
                           << <<"\f","7"," ">> >>, << <<"">> >>,
                           << <<"","7">> >>,
                           << <<"9","9","9","9","9","9","9","9","9","9","9",
                                "9">> >> },
     age |-> { <<>>, << <<>> >>, << <<"a","b","c">> >>, << <<"5","0">> >>,
               << <<"5","1">> >>, << <<"5",".","5">> >>,
               << <<"1","2","3","4","5","6","7","8","9","0","1","2">> >> },
     uv_exposure |-> { <<>>, << <<"7">> >>, << <<"8">> >>, << <<"x">> >> },
     family_history |-> { << <<"o","n">> >> },
     manual_length |-> { <<>>, << <<>> >>, << <<" ">> >>,
                         << <<"a","b","c">> >>, << <<"-","2">> >>,
                         << <<"0">> >>, << <<"5",".","9">> >>,
                         << <<"n","a","n">> >>, << <<"1","e","1">> >>,
                         << <<"1","_","0">> >>, << <<"-","I","n","f">> >>,
                         << <<"1","e","-","4","0","0">> >>,
                         << <<"1","e","4","0","0">> >>,
                         << <<"5",".","9","9","9","9","9","9","9","9","9",
                              "9","9","9","9","9","9","9","9","9","9",
                              "9">> >> },
     manual_width |-> { <<>>, << <<"0">> >>, << <<"x">> >>,
                        << <<"-","1",".","5">> >>, << <<".","5">> >>,
                        << <<"","2","\f">> >> }]

\* the requests that differ from BaseRequest in at most k fields
RECURSIVE RequestsWithin(_)
RequestsWithin(k) ==
    IF k = 0 THEN {BaseRequest}
    ELSE LET prev == RequestsWithin(k - 1)
         IN  prev
             \cup { [r EXCEPT !.method = v] : r \in prev, v \in MethodAlts }
             \cup { [r EXCEPT !.content_length = v] :
                      r \in prev, v \in LengthAlts }
             \cup { [r EXCEPT !.files.image = v] : r \in prev, v \in FileAlts }
             \cup UNION { { [r EXCEPT !.form[f] = v] : v \in FormAlts[f] } :
                          r \in prev, f \in FormFields }

Requests == RequestsWithin(MaxVaried)

---------------------------------------------------------------------------
(* home() and the error handlers.                                          *)

\* request.form.get(key, default) and "key in request.form"
FormGet(key, default) ==
    IF request.form[key] = <<>> THEN default ELSE Head(request.form[key])
InForm(key) == request.form[key] # <<>>

\* request.files['image']
UploadedFile == Head(request.files.image)

\* flash(message, 'error')
Flash(message) == Append(flashes, [message |-> message, category |-> "error"])

\* redirect(request.url): the request was sent to the route '/'
Redirect == [kind |-> "redirect", location |-> "/", status |-> 302]

\* render_template('index.html', **context), returned with the status
Rendered(context, status) ==
    [kind |-> "render", template |-> "index.html", context |-> context,
     status |-> status]

\* the function has not returned
NoResponse == [kind |-> "none"]

\* an exception left the function
Raised == [kind |-> "raised"]

\* the functions of the application that Flask calls: the view of the
\* route '/' and the handlers registered with app.errorhandler
Handlers ==
    {"home", "too_large", "page_not_found", "internal_error",
     "handle_exception"}

\* Python's None
None == "None"

\* The locals of home() before it assigns them.
LocalsUnset ==
    /\ skin_type = <<>>
    /\ body_part = <<>>
    /\ has_evolved = FALSE
    /\ evolution_weeks = PyInt(0)
    /\ age = PyInt(0)
    /\ uv_exposure = PyInt(0)
    /\ family_history = FALSE
    /\ manual_length = FloatZero
    /\ manual_width = FloatZero
    /\ file_data = Undecodable
    /\ show_manual_measurements = FALSE
    /\ detected_skin_type = <<>>
    /\ prediction = ""
    /\ confidence = 0
    /\ analysis_data = EmptyDict
    /\ analysis_summary = None

\* Flask calls one of its functions for a request.
Init ==
    /\ handler \in Handlers
    /\ pc = handler
    /\ request \in Requests
    /\ flashes = <<>>
    /\ response = NoResponse
    /\ LocalsUnset
    /\ stages = <<>>
    /\ calls = <<>>

\* request.files parses the body when line 184 first reads it, and raises
\* RequestEntityTooLarge for a body above MAX_CONTENT_LENGTH.
EntityTooLarge(req) == req.content_length > MAX_CONTENT_LENGTH

\* The flash message of the validation failure, "" when the upload passes:
\* that of the except clause of lines 302-306 for the exception of line
\* 184, those of lines 185, 190 and 195 for the three checks.
ValidationError(req) ==
    IF EntityTooLarge(req)
    THEN "An error occurred while processing your upload. Please try again."
    ELSE IF req.files.image = <<>> THEN "No file selected"
    ELSE IF Head(req.files.image).filename = <<>> THEN "No file selected"
    ELSE IF ~allowed_file(Head(req.files.image).filename)
    THEN "Invalid file type. Please upload a valid image file."
    ELSE ""

\* Validate with the return after the extension check's flash left out
Validate_NoReturn ==
    /\ pc = "home"
    /\ request.method = "POST"
    /\ stages' = Append(stages, "validate")
    /\ IF ValidationError(request)
             \notin {"", "Invalid file type. Please upload a valid image file."}
       THEN /\ flashes' = Flash(ValidationError(request))
            /\ response' = Redirect
            /\ pc' = "done"
       ELSE /\ pc' = "coerce"
            /\ flashes' = IF ValidationError(request) # ""
                          THEN Flash(ValidationError(request)) ELSE flashes
            /\ UNCHANGED response
    /\ UNCHANGED <<handler, request, formVars, detected_skin_type, scoreVars, calls>>

\* Lines 181-196, and lines 302-306 for the exception of line 184: for a
\* POST the body is parsed and the upload checked.
Validate ==
    /\ pc = "home"
    /\ request.method = "POST"
    /\ stages' = Append(stages, "validate")
    /\ IF ValidationError(request) # ""
       THEN /\ flashes' = Flash(ValidationError(request))
            /\ response' = Redirect
            /\ pc' = "done"
       ELSE /\ pc' = "coerce"
            /\ UNCHANGED <<flashes, response>>
    /\ UNCHANGED <<handler, request, formVars, detected_skin_type, scoreVars, calls>>

\* body_part as lines 200-202 leave it
CoerceBodyPart(raw) ==
    IF ~Truthy(raw) \/ raw = <<>> \/ raw = <<"N","o","n","e">>
    THEN <<"o","t","h","e","r">> ELSE raw

\* try: value = convert(raw) / except: value = default, for the result r
\* of the conversion
ValueOr(r, default) == IF r.ok THEN r.val ELSE default

\* evolution_weeks as lines 206-213 leave it
CoerceEvolutionWeeks(he, raw) ==
    IF he /\ Truthy(raw) /\ Truthy(Strip(raw))
    THEN ValueOr(IntOfStr(raw), PyInt(0))
    ELSE PyInt(0)

\* CoerceInt falling back to 0 instead of the default on a parse failure
CoerceInt_ZeroOnError(values, default) ==
    IF values = <<>> THEN PyInt(default)
    ELSE ValueOr(IntOfStr(Head(values)), PyInt(0))

\* int(request.form.get(key, default)) guarded by except Exception
\* (lines 216-223); int(default) is default
CoerceInt(values, default) ==
    IF values = <<>> THEN PyInt(default)
    ELSE ValueOr(IntOfStr(Head(values)), PyInt(default))

\* lines 227-237: request.form.get(key) is None when the key is absent
CoerceFloat(values) ==
    IF values = <<>> THEN FloatZero
    ELSE IF Truthy(Head(values)) /\ Truthy(Strip(Head(values)))
    THEN ValueOr(FloatOfStr(Head(values)), FloatZero)
    ELSE FloatZero

\* the display flag with 'or' in place of 'and'
ShowManualMeasurements_Either(ml, mw) == FloatGT(ml, 0) \/ FloatGT(mw, 0)

\* line 243
ShowManualMeasurements(ml, mw) == FloatGT(ml, 0) /\ FloatGT(mw, 0)

\* Lines 199-243: the form fields are read and coerced, the upload is read.
Coerce ==
    /\ pc = "coerce"
    /\ stages' = Append(stages, "coerce")
    /\ skin_type' = FormGet("skin_type", TypeIII)
    /\ body_part' = CoerceBodyPart(FormGet("body_part", <<"o","t","h","e","r">>))
    /\ has_evolved' = InForm("has_evolved")
    /\ evolution_weeks' =
          CoerceEvolutionWeeks(InForm("has_evolved"),
                               FormGet("evolution_weeks", <<>>))
    /\ age' = CoerceInt(request.form.age, 50)
    /\ uv_exposure' = CoerceInt(request.form.uv_exposure, 5)
    /\ family_history' = InForm("family_history")
    /\ manual_length' = CoerceFloat(request.form.manual_length)
    /\ manual_width' = CoerceFloat(request.form.manual_width)
    /\ file_data' = UploadedFile.data
    /\ show_manual_measurements' =
          ShowManualMeasurements(manual_length', manual_width')
    /\ pc' = "classify"
    /\ UNCHANGED <<handler, request, flashes, response, detected_skin_type, scoreVars,
                   calls>>

\* Classify without line 247: the submitted skin_type is kept
Classify_NoOverride ==
    /\ pc = "classify"
    /\ stages' = Append(stages, "classify")
    /\ calls' = Append(calls, [fn |-> "detect_skin_type_simple",
                               image_data |-> file_data])
    /\ detected_skin_type' = detect_skin_type_simple(file_data)
    /\ pc' = "score"
    /\ UNCHANGED <<handler, request, flashes, response, formVars, scoreVars>>

\* Lines 246-247: the detected type replaces the submitted one.
Classify ==
    /\ pc = "classify"
    /\ stages' = Append(stages, "classify")
    /\ calls' = Append(calls, [fn |-> "detect_skin_type_simple",
                               image_data |-> file_data])
    /\ detected_skin_type' = detect_skin_type_simple(file_data)
    /\ skin_type' = detected_skin_type'
    /\ pc' = "score"
    /\ UNCHANGED <<handler, request, flashes, response, body_part, has_evolved,
                   evolution_weeks, age, uv_exposure, family_history,
                   manual_length, manual_width, file_data,
                   show_manual_measurements, scoreVars>>

\* lines 259-272: None for an empty analysis_data, else its ten entries
AnalysisSummary(data, st) ==
    IF DOMAIN data = {} THEN None
    ELSE [ABCDE_feature_analysis |->
              Get(data, "ABCDE_feature_analysis", EmptyDict),
          cnn_analysis |-> Get(data, "cnn_analysis", EmptyDict),
          metadata_risk_analysis |->
              Get(data, "metadata_risk_analysis", EmptyDict),
          combined_score |-> Get(data, "combined_score", 0),
          combined_score_explanation |->
              Get(data, "combined_score_explanation", 0),
          detected_skin_tone |->
              Get(data, "detected_skin_tone", TypeLabel(st)),
          analysis_type |-> Get(data, "analysis_type", "simplified_vercel"),
          skin_type_adjustments |->
              Get(data, "skin_type_adjustments", EmptyDict),
          manual_measurements |-> Get(data, "manual_measurements", EmptyDict),
          image_analysis |-> Get(data, "image_analysis", EmptyDict)]

\* the arguments of the call of lines 251-254
ScorerArgs ==
    [fn |-> "predict_lesion_simple",
     image_data |-> file_data, skin_type |-> skin_type,
     body_part |-> body_part, has_evolved |-> has_evolved,
     evolution_weeks |-> evolution_weeks,
     manual_length |-> manual_length, manual_width |-> manual_width,
     age |-> age, uv_exposure |-> uv_exposure,
     family_history |-> family_history]

\* Lines 251-272: the scorer is called and its result summarised.
Score ==
    /\ pc = "score"
    /\ stages' = Append(stages, "score")
    /\ calls' = Append(calls, ScorerArgs)
    /\ \E r \in predict_lesion_simple(file_data, skin_type, body_part,
                                      has_evolved, evolution_weeks,
                                      manual_length, manual_width, age,
                                      uv_exposure, family_history) :
          /\ prediction' = r.prediction
          /\ confidence' = r.confidence
          /\ analysis_data' = r.analysis_data
          /\ analysis_summary' = AnalysisSummary(r.analysis_data, skin_type)
    /\ pc' = "render"
    /\ UNCHANGED <<handler, request, flashes, response, formVars, detected_skin_type>>

\* the list of lines 288 and 309
body_part_options ==
    << <<"f","a","c","e">>, <<"s","c","a","l","p">>, <<"n","e","c","k">>,
       <<"c","h","e","s","t">>, <<"b","a","c","k">>,
       <<"a","b","d","o","m","e","n">>, <<"a","r","m","s">>,
       <<"h","a","n","d","s">>, <<"l","e","g","s">>, <<"f","e","e","t">>,
       <<"o","t","h","e","r">> >>

\* the dict FITZPATRICK_TYPES as a keyword argument
fitzpatrick_types == [code \in FitzpatrickCodes |-> FITZPATRICK_TYPES(code)]

\* the keyword arguments of render_template (lines 278-294)
RenderContext ==
    [result |-> prediction,
     confidence |-> confidence,
     image_path |-> [data_url_of |-> file_data],
     filename |-> UploadedFile.filename,
     skin_type |-> skin_type,
     skin_type_description |-> FITZPATRICK_TYPES(skin_type),
     analysis_summary |-> analysis_summary,
     detected_skin_tone |-> TypeLabel(skin_type),
     fitzpatrick_types |-> fitzpatrick_types,
     body_part_options |-> body_part_options,
     age |-> age,
     uv_exposure |-> uv_exposure,
     family_history |-> family_history,
     manual_length |-> manual_length,
     manual_width |-> manual_width,
     show_manual_measurements |-> show_manual_measurements]

\* Lines 275-300: the report is rendered; render_template evaluates
\* templates/index.html and may raise, which the except clause of line 296
\* turns into a flash message and a redirect.
Render ==
    /\ pc = "render"
    /\ stages' = Append(stages, "render")
    /\ \E raised \in BOOLEAN :
          IF raised
          THEN /\ flashes' = Flash("Error processing image. Please try again with a different image.")
               /\ response' = Redirect
          ELSE /\ response' = Rendered(RenderContext, 200)
               /\ UNCHANGED flashes
    /\ pc' = "done"
    /\ UNCHANGED <<handler, request, formVars, detected_skin_type, scoreVars, calls>>

\* what leaves unchanged a function that only answers
AnswerOnly ==
    UNCHANGED <<handler, request, formVars, detected_skin_type, scoreVars,
                stages, calls>>

\* Lines 181 and 308-310: for a request that is not a POST the form is
\* rendered, outside any try block: an exception of render_template leaves
\* home().
ShowForm ==
    /\ pc = "home"
    /\ request.method # "POST"
    /\ \E raised \in BOOLEAN :
          response' = IF raised THEN Raised
                      ELSE Rendered([fitzpatrick_types |-> fitzpatrick_types,
                                     body_part_options |-> body_part_options],
                                    200)
    /\ pc' = "done"
    /\ UNCHANGED flashes
    /\ AnswerOnly

\* too_large(e), lines 312-316: the handler of HTTP 413 flashes a message
\* and redirects to url_for('home'). home() catches the
\* RequestEntityTooLarge of its own request (Validate), so it is another
\* source of the error that has Flask call the handler.
too_large ==
    /\ pc = "too_large"
    /\ flashes' = Flash("File too large. Please upload an image smaller than 16MB.")
    /\ response' = [kind |-> "redirect", location |-> "/", status |-> 302]
    /\ pc' = "done"
    /\ AnswerOnly

\* page_not_found(e), lines 318-321: the page is rendered with an error
\* message and the status 404; an exception of render_template leaves the
\* handler
page_not_found ==
    /\ pc = "page_not_found"
    /\ \E raised \in BOOLEAN :
          response' = IF raised THEN Raised
                      ELSE Rendered([error |-> "Page not found"], 404)
    /\ pc' = "done"
    /\ UNCHANGED flashes
    /\ AnswerOnly

\* internal_error(e), lines 323-326: the page is rendered with an error
\* message and the status 500
internal_error ==
    /\ pc = "internal_error"
    /\ \E raised \in BOOLEAN :
          response' = IF raised THEN Raised
                      ELSE Rendered([error |-> "Internal server error"], 500)
    /\ pc' = "done"
    /\ UNCHANGED flashes
    /\ AnswerOnly

\* handle_exception(e), lines 328-332: the page is rendered with an error
\* message and the status 500, after the exception is logged
handle_exception ==
    /\ pc = "handle_exception"
    /\ \E raised \in BOOLEAN :
          response' = IF raised THEN Raised
                      ELSE Rendered([error |-> "An unexpected error occurred"], 500)
    /\ pc' = "done"
    /\ UNCHANGED flashes
    /\ AnswerOnly

\* Past line 184 no statement of lines 184-247 raises (every conversion is
\* guarded, both helpers catch their own exceptions), so the except clause
\* of lines 302-306 is entered from Validate only.
Next ==
    \/ Validate \/ Coerce \/ Classify \/ Score \/ Render
    \/ ShowForm
    \/ too_large \/ page_not_found \/ internal_error \/ handle_exception

Spec == Init /\ [][Next]_vars

---------------------------------------------------------------------------
(* predict_lesion_simple called on its own.                                *)

PredictImages ==
    {Undecodable, Img(900, 600), Img(999, 500), Img(999, 501),
     Img(1000, 500), Img(1000, 501)}

InitPredict ==
    /\ handler = "home"
    /\ pc = "score"
    /\ request = BaseRequest
    /\ flashes = <<>>
    /\ response = NoResponse
    /\ file_data \in PredictImages
    /\ skin_type = detect_skin_type_simple(file_data)
    /\ detected_skin_type = skin_type
    /\ body_part = <<"o","t","h","e","r">>
    /\ has_evolved \in BOOLEAN
    /\ evolution_weeks = PyInt(0)
    /\ age \in {PyInt(30), PyInt(50), PyInt(51), PyInt(60)}
    /\ uv_exposure \in {PyInt(3), PyInt(7), PyInt(8)}
    /\ family_history \in BOOLEAN
    /\ manual_length \in {FloatOfStr(<<"5",".","9">>).val, FloatOfNat(6)}
    /\ manual_width = FloatZero
    /\ show_manual_measurements = FALSE
    /\ prediction = ""
    /\ confidence = 0
    /\ analysis_data = EmptyDict
    /\ analysis_summary = None
    /\ stages = <<>>
    /\ calls = <<>>

SpecPredict == InitPredict /\ [][Score]_vars

---------------------------------------------------------------------------
(* Shared vocabulary of the properties.                                    *)

AllStages == <<"validate", "coerce", "classify", "score", "render">>

\* the request is a POST that Flask hands to home()
PostToHome == handler = "home" /\ request.method = "POST"

\* the request passed the checks of the upload
Validated == "coerce" \in {stages[i] : i \in DOMAIN stages}
Classified == "classify" \in {stages[i] : i \in DOMAIN stages}
ScorerReturned == "score" \in {stages[i] : i \in DOMAIN stages}

PredictCalls == {i \in DOMAIN calls : calls[i].fn = "predict_lesion_simple"}
DetectCalls == {i \in DOMAIN calls : calls[i].fn = "detect_skin_type_simple"}

\* x = 0.0, x >= 0 and x > 0 for a float x, stated on the representation
\* (-0.0 >= 0 is true, nan >= 0 is false)
IsZero(x) == x.kind = "fin" /\ x.mant = <<>>
NonNegative(x) ==
    \/ x.kind = "fin" /\ (x.sign = 1 \/ x.mant = <<>>)
    \/ x.kind = "inf" /\ x.sign = 1
Positive(x) ==
    \/ x.kind = "fin" /\ x.sign = 1 /\ x.mant # <<>>
    \/ x.kind = "inf" /\ x.sign = 1

\* n as a Python int
IntIs(x, n) == x = [sign |-> 1, mag |-> NatLimbs(n)]

\* the raw value of a form field is absent or does not parse
IntMissing(values) == values = <<>> \/ ~IntOfStr(Head(values)).ok
FloatMissing(values) == values = <<>> \/ ~FloatOfStr(Head(values)).ok

---------------------------------------------------------------------------
(* C1 *)

\* the extension after the last '.', compared case-insensitively, is one
\* of png, jpg, jpeg, gif, bmp
C1_ExtensionAllowed(name) ==
    \E i \in 1..Len(name) :
       /\ name[i] = "."
       /\ \A j \in (i + 1)..Len(name) : name[j] # "."
       /\ AsciiLower(SubSeq(name, i + 1, Len(name)))
             \in {<<"p","n","g">>, <<"j","p","g">>, <<"j","p","e","g">>,
                  <<"g","i","f">>, <<"b","m","p">>}

C1_BadUpload ==
    \/ request.files.image = <<>>
    \/ Head(request.files.image).filename = <<>>
    \/ ~C1_ExtensionAllowed(Head(request.files.image).filename)

\* C1: a POST whose 'image' part is missing, whose filename is empty or
\* whose extension is not allowed is answered by a flash message and a
\* redirect to the form, and neither detect_skin_type_simple nor
\* predict_lesion_simple is called for it.
C1_BadUploadRejected ==
    (PostToHome /\ C1_BadUpload) =>
       /\ calls = <<>>
       /\ pc \in {"home", "done"}
       /\ pc = "done" =>
             /\ response = Redirect
             /\ Len(flashes) = 1
             /\ stages = <<"validate">>

\* a file with a disallowed extension has been turned away
C1_Witness ==
    /\ PostToHome
    /\ pc = "done"
    /\ request.files.image # <<>>
    /\ Head(request.files.image).filename = <<"a",".","p","n","g",".","e","x","e">>
    /\ response = Redirect
    /\ flashes = <<[message |-> "Invalid file type. Please upload a valid image file.",
                    category |-> "error"]>>

---------------------------------------------------------------------------
(* C2 *)

\* the threshold table of the classifier, brightness in tenths
C2_Table(img) ==
    IF ~img.decodable THEN TypeIII
    ELSE CASE img.brightness < 850 -> TypeVI
           [] 850 <= img.brightness /\ img.brightness < 1200 -> TypeV
           [] 1200 <= img.brightness /\ img.brightness < 1500 -> TypeIV
           [] 1500 <= img.brightness /\ img.brightness < 1800 -> TypeIII
           [] 1800 <= img.brightness /\ img.brightness < 2000 -> TypeII
           [] img.brightness >= 2000 -> TypeI

\* C2: detect_skin_type_simple answers VI below 85, V in [85, 120), IV in
\* [120, 150), III in [150, 180), II in [180, 200), I from 200 on, and III
\* for bytes that do not decode; the answer is always one of the six codes
\* and is fixed by the image.
C2_BrightnessLadder ==
    Classified =>
       /\ detected_skin_type = C2_Table(file_data)
       /\ detected_skin_type \in FitzpatrickCodes
       /\ \A i \in DetectCalls : calls[i].image_data = file_data

\* the classifier has answered V for a brightness of exactly 85.0
C2_Witness ==
    /\ Classified
    /\ file_data.decodable
    /\ file_data.brightness = 850
    /\ detected_skin_type = TypeV

---------------------------------------------------------------------------
(* C3 *)

\* C3: the skin type passed to predict_lesion_simple and rendered as
\* skin_type, skin_type_description and detected_skin_tone is the one
\* detect_skin_type_simple returns for the uploaded bytes, whatever the
\* 'skin_type' form field holds.
C3_DetectedSkinTypeUsed ==
    LET detected == detect_skin_type_simple(UploadedFile.data)
    IN  /\ \A i \in PredictCalls : calls[i].skin_type = detected
        /\ ScorerReturned => analysis_data.detected_skin_tone = TypeLabel(detected)
        /\ (PostToHome /\ response.kind = "render") =>
              /\ response.context.skin_type = detected
              /\ response.context.skin_type_description
                    = FITZPATRICK_TYPES(detected)
              /\ response.context.detected_skin_tone = TypeLabel(detected)

\* a report was rendered for a request whose submitted skin type differs
\* from the detected one
C3_Witness ==
    /\ PostToHome
    /\ response.kind = "render"
    /\ request.form.skin_type = <<TypeVI>>
    /\ response.context.skin_type = TypeIV
    /\ PredictCalls # {}

---------------------------------------------------------------------------
(* C4 *)

\* risk_factors as the claim states it, from the arguments of the scorer
C4_RiskFactors ==
    2 * (IF has_evolved THEN 1 ELSE 0)
    + (IF family_history THEN 1 ELSE 0)
    + (IF IntGT(age, 50) THEN 1 ELSE 0)
    + (IF IntGT(uv_exposure, 7) THEN 1 ELSE 0)
    + (IF file_data.decodable /\ file_data.contrast > 500 THEN 1 ELSE 0)
    + (IF file_data.decodable /\ file_data.brightness < 1000 THEN 1 ELSE 0)

\* C4: the label is 'High Risk - Melanoma' with confidence in [75, 95]
\* exactly when risk_factors >= 3, 'Medium Risk - Atypical Nevus' with
\* confidence in [50, 80] exactly when 1 <= risk_factors < 3, and 'Low Risk
\* - Benign' with confidence in [70, 90] exactly when risk_factors = 0.
C4_TierByRiskFactors ==
    ScorerReturned =>
       /\ (prediction = "High Risk - Melanoma") = (C4_RiskFactors >= 3)
       /\ (prediction = "Medium Risk - Atypical Nevus")
             = (1 <= C4_RiskFactors /\ C4_RiskFactors < 3)
       /\ (prediction = "Low Risk - Benign") = (C4_RiskFactors = 0)
       /\ prediction = "High Risk - Melanoma" => confidence \in 75..95
       /\ prediction = "Medium Risk - Atypical Nevus" => confidence \in 50..80
       /\ prediction = "Low Risk - Benign" => confidence \in 70..90
       /\ analysis_data.cnn_analysis
             = [prediction |-> prediction, confidence |-> confidence]

\* the scorer has answered for seven risk factors (age 60, brightness 90,
\* contrast 60)
C4_Witness ==
    /\ ScorerReturned
    /\ has_evolved /\ family_history /\ IntIs(age, 60) /\ IntIs(uv_exposure, 8)
    /\ file_data = Img(900, 600)
    /\ C4_RiskFactors = 7
    /\ prediction = "High Risk - Melanoma"
    /\ confidence = 83

---------------------------------------------------------------------------
(* C5 *)

\* C5: after validation an absent or unparseable age becomes 50,
\* uv_exposure 5, manual_length and manual_width 0.0, evolution_weeks 0;
\* evolution_weeks is 0 whenever has_evolved is false; and the request
\* goes on to the scorer, which is passed these values. The coerced values
\* are looked at from the end of the coercion to the call of the scorer.
C5_NumericDefaults ==
    /\ pc \in {"classify", "score"} =>
          /\ IntMissing(request.form.age) => IntIs(age, 50)
          /\ IntMissing(request.form.uv_exposure) => IntIs(uv_exposure, 5)
          /\ FloatMissing(request.form.manual_length)
                => manual_length = Fin(1, <<>>, 0)
          /\ FloatMissing(request.form.manual_width)
                => manual_width = Fin(1, <<>>, 0)
          /\ IntMissing(request.form.evolution_weeks)
                => IntIs(evolution_weeks, 0)
          /\ request.form.has_evolved = <<>> => IntIs(evolution_weeks, 0)
    /\ \A i \in PredictCalls :
          /\ calls[i].age = age
          /\ calls[i].uv_exposure = uv_exposure
          /\ calls[i].manual_length = manual_length
          /\ calls[i].manual_width = manual_width
          /\ calls[i].evolution_weeks = evolution_weeks
    /\ (Validated /\ pc \in {"render", "done"}) => PredictCalls # {}

\* a request with age 'abc' reached the scorer with age 50
C5_Witness ==
    /\ PostToHome
    /\ request.form.age = << <<"a","b","c">> >>
    /\ IntIs(age, 50)
    /\ \E i \in PredictCalls : IntIs(calls[i].age, 50)

---------------------------------------------------------------------------
(* C6 *)

\* C6: for bytes that do not decode the scorer's image_analysis is the
\* empty mapping, its risk-factor count is made of has_evolved,
\* family_history, age and uv_exposure alone, and its result is one of the
\* three tiers, not the 'Error - Unable to analyze' result.
C6_UndecodableImage ==
    (ScorerReturned /\ ~file_data.decodable) =>
       LET n == 2 * (IF has_evolved THEN 1 ELSE 0)
                + (IF family_history THEN 1 ELSE 0)
                + (IF IntGT(age, 50) THEN 1 ELSE 0)
                + (IF IntGT(uv_exposure, 7) THEN 1 ELSE 0)
       IN  /\ DOMAIN analysis_data # {}
           /\ DOMAIN analysis_data.image_analysis = {}
           /\ analysis_data.combined_score_explanation = n
           /\ prediction = (IF n >= 3 THEN "High Risk - Melanoma"
                            ELSE IF n >= 1 THEN "Medium Risk - Atypical Nevus"
                            ELSE "Low Risk - Benign")
           /\ confidence > 0

\* the scorer has answered 'Low Risk - Benign' for undecodable bytes
C6_Witness ==
    /\ ScorerReturned
    /\ ~file_data.decodable
    /\ ~has_evolved /\ ~family_history /\ IntIs(age, 30) /\ IntIs(uv_exposure, 3)
    /\ prediction = "Low Risk - Benign"
    /\ DOMAIN analysis_data.image_analysis = {}

---------------------------------------------------------------------------
(* C7 *)

\* C7: the coerced manual_length and manual_width passed to the scorer and
\* to the template are non-negative.
C7_ManualNonNegative ==
    /\ \A i \in PredictCalls :
          NonNegative(calls[i].manual_length)
          /\ NonNegative(calls[i].manual_width)
    /\ (PostToHome /\ response.kind = "render") =>
          /\ NonNegative(response.context.manual_length)
          /\ NonNegative(response.context.manual_width)

---------------------------------------------------------------------------
(* C8 *)

\* the result r of float() is a ValueError or zero
C8_Unmeasured(r) == ~r.ok \/ IsZero(r.val)

\* the raw value is absent, blank, unparseable or zero
C8_NoMeasure(values) ==
    \/ values = <<>>
    \/ Strip(Head(values)) = <<>>
    \/ C8_Unmeasured(FloatOfStr(Head(values)))

\* C8: the rendered show_manual_measurements is true exactly when the
\* coerced manual_length and manual_width are both > 0, and so is false
\* when either field is absent, blank, unparseable or zero.
C8_ShowFlag ==
    (PostToHome /\ response.kind = "render") =>
       /\ response.context.show_manual_measurements
             = (Positive(response.context.manual_length)
                /\ Positive(response.context.manual_width))
       /\ (C8_NoMeasure(request.form.manual_length)
           \/ C8_NoMeasure(request.form.manual_width))
             => ~response.context.show_manual_measurements

\* a report was rendered with the flag false for a length of 6 and a
\* width of 0
C8_Witness ==
    /\ PostToHome
    /\ response.kind = "render"
    /\ response.context.manual_length = Fin(1, <<6755, 3994, 4105, 5744>>, -50)
    /\ IsZero(response.context.manual_width)
    /\ request.form.manual_width = << <<"0">> >>
    /\ ~response.context.show_manual_measurements

---------------------------------------------------------------------------
(* C9 *)

\* for a POST the stages of home() run in order, each at most once, and
\* home() returns exactly once, when it is done
C9_StagesInOrder ==
    PostToHome =>
       /\ Len(stages) <= Len(AllStages)
       /\ stages = SubSeq(AllStages, 1, Len(stages))
       /\ (pc = "done") = (response.kind # "none")
       /\ response.kind \in {"none", "render", "redirect"}

\* C9 as stated: stages in order, one terminal response, and a redirect
\* only on validation failure, so that a validated request always ends in
\* a rendered report.
C9_RedirectOnlyOnValidationFailure ==
    /\ C9_StagesInOrder
    /\ (PostToHome /\ response.kind = "redirect")
          => ValidationError(request) # ""
    /\ (PostToHome /\ pc = "done" /\ ValidationError(request) = "")
          => response.kind = "render"

\* C9 amended: stages in order, each at most once, one terminal response;
\* the handler redirects on validation failure, straight after the
\* validate stage, and also when rendering the report raises, after all
\* five stages; a validated request runs all five stages and ends in a
\* rendered report unless that exception occurs.
C9_RedirectOnValidationOrRenderFailure ==
    /\ C9_StagesInOrder
    /\ (PostToHome /\ pc = "done") =>
          IF ValidationError(request) # ""
          THEN /\ response = Redirect
               /\ stages = <<"validate">>
               /\ flashes = <<[message |-> ValidationError(request),
                               category |-> "error"]>>
          ELSE /\ stages = AllStages
               /\ \/ response.kind = "render" /\ flashes = <<>>
                  \/ /\ response = Redirect
                     /\ flashes = <<[message |-> "Error processing image. Please try again with a different image.",
                                     category |-> "error"]>>

\* a validated request went through all five stages and was redirected
C9_Witness ==
    /\ PostToHome
    /\ pc = "done"
    /\ ValidationError(request) = ""
    /\ stages = AllStages
    /\ response = Redirect

---------------------------------------------------------------------------
(* C10 *)

\* C10: asymmetry, border and color lie in [0.1, 0.4] with labels Low,
\* Regular, Uniform when risk_factors < 2 and in [0.5, 0.8] with labels
\* High, Irregular, Variable when risk_factors >= 2; a High Risk result
\* carries the three upper labels and a Low Risk result the three lower.
C10_FeatureBuckets ==
    ScorerReturned =>
       LET f == analysis_data.ABCDE_feature_analysis
           lower == /\ \A k \in {"asymmetry", "border", "color"} :
                          10 <= f[k].score.lo /\ f[k].score.hi <= 40
                    /\ f.asymmetry.label = "Low"
                    /\ f.border.label = "Regular"
                    /\ f.color.label = "Uniform"
           upper == /\ \A k \in {"asymmetry", "border", "color"} :
                          50 <= f[k].score.lo /\ f[k].score.hi <= 80
                    /\ f.asymmetry.label = "High"
                    /\ f.border.label = "Irregular"
                    /\ f.color.label = "Variable"
       IN  /\ C4_RiskFactors < 2 => lower
           /\ C4_RiskFactors >= 2 => upper
           /\ prediction = "High Risk - Melanoma" => upper
           /\ prediction = "Low Risk - Benign" => lower

\* a Medium Risk result with two risk factors carries the upper labels
C10_Witness ==
    /\ ScorerReturned
    /\ C4_RiskFactors = 2
    /\ prediction = "Medium Risk - Atypical Nevus"
    /\ analysis_data.ABCDE_feature_analysis.asymmetry
          = [score |-> [lo |-> 50, hi |-> 80], label |-> "High"]
    /\ analysis_data.ABCDE_feature_analysis.color.label = "Variable"

====
